---- MODULE Spec2Model ----
(***************************************************************************)
(* Verification model of the oppai-rs network definitions.                 *)
(*                                                                         *)
(*   zero-torch/model.py      Model, the masked residual tower             *)
(*   zero-torch/oppai_net.py  OppaiNet, the legacy small tower             *)
(*                                                                         *)
(* Four specifications share the variables below:                          *)
(*   Spec         the life of one network object: construction, forward,  *)
(*                predict and train_on calls in any order                  *)
(*   SpecForward  Model.forward evaluated stage by stage on a small board  *)
(*   SpecShape    the channel counts along Model.forward                   *)
(*   SpecCalib    the board-size correction factors over sides 16..40      *)
(*                                                                         *)
(* Tensors of real numbers are modelled in fixed point, in hundredths.     *)
(***************************************************************************)
EXTENDS Integers, Sequences, FiniteSets, TLC

----------------------------------------------------------------------------
(* Bounds of the model *)

\* calls (forward, predict, train_on) made on one network object
MaxOps == 3

----------------------------------------------------------------------------
(* Generic helpers *)

RECURSIVE SumSeq(_)
SumSeq(s) == IF s = <<>> THEN 0 ELSE Head(s) + SumSeq(Tail(s))

Sgn(v) == IF v > 0 THEN 1 ELSE IF v < 0 THEN -1 ELSE 0

Variants == {"Model", "OppaiNet"}

----------------------------------------------------------------------------
(* The network object and its operations (Spec)                            *)

VARIABLES
  variant,    \* which class the object is: "Model" or "OppaiNet"
  net,        \* the nn.Module: training flag, parameter, its .grad, BN buffers
  nops,       \* calls made so far
  lastOp,     \* the last call: "init", "forward", "predict" or "train_on"
  fwdMode,    \* the mode the last forward pass ran in: "train" or "eval"
  bnStats,    \* statistics the batch-norm layers used in the last forward pass
  out,        \* what the last forward pass returned
  outCopy,    \* what the same call returned on a copy of the same network state
  lossGrad,   \* gradient of the loss of the last train_on call
  consumed,   \* gradient the last optimizer step read
  steps,      \* optimizer steps taken so far
  gradBefore  \* the .grad the last train_on call found on entry

rtVars == <<variant, net, nops, lastOp, fwdMode, bnStats, out, outCopy,
            lossGrad, consumed, steps, gradBefore>>

\* a batch holds two samples
Samples == {1, 2}

\* the batches of inputs fed to the network; a batch of targets gives every
\* sample the same target
Batches == {[i \in Samples |-> 10 * i], [i \in Samples |-> 10]}
Targets == {[i \in Samples |-> t] : t \in {0, 1}}

\* a dropout layer draws one keep/drop decision per element of the batch; the
\* draws followed are "keep every element" and "drop the last element".
\* Model has no dropout layer and draws nothing.
DropMasks(v) ==
  IF v = "Model" THEN {[i \in Samples |-> TRUE]}
  ELSE {[i \in Samples |-> TRUE], [i \in Samples |-> i # 2]}

\* the batch-norm layers of the legacy tower
BNLayers == {"bn", "fc_bn1", "fc_bn2"}

\* nn.Module.__init__: training = True; parameters set; no gradient yet;
\* BatchNorm buffers running_mean = 0, num_batches_tracked = 0
NewNet(v) ==
  [training |-> TRUE,
   params   |-> 1,
   grad     |-> 0,
   running  |-> [l \in BNLayers |-> 0],
   tracked  |-> 0]

\* nn.Module.eval() / nn.Module.train()
SetEval(n) == [n EXCEPT !.training = FALSE]
SetTrain(n) == [n EXCEPT !.training = TRUE]

Relu(v) == IF v > 0 THEN v ELSE 0

\* a linear layer or convolution with the single weight p
Linear(p, x) == [i \in DOMAIN x |-> p * x[i]]

BatchMean(x) == SumSeq(x) \div Len(x)

\* nn.BatchNorm in training mode normalises by the statistic of the batch and
\* moves the running estimate towards it (momentum 0.1); in eval mode it
\* normalises by the running estimate and leaves it alone.  The running mean is
\* kept in tenths.  [out, running]
BatchNorm(x, isTraining, runMean) ==
  IF isTraining
    THEN [out     |-> [i \in DOMAIN x |-> x[i] - BatchMean(x)],
          running |-> (9 * runMean + 10 * BatchMean(x)) \div 10,
          used    |-> "batch"]
    ELSE [out     |-> [i \in DOMAIN x |-> x[i] - (runMean \div 10)],
          running |-> runMean,
          used    |-> "running"]

\* F.dropout(x, p = 0.3, training = isActive): when active each element is
\* zeroed or scaled by 1 / (1 - 0.3); when inactive it is the identity
Dropout(x, isActive, mask) ==
  IF isActive
    THEN [i \in DOMAIN x |-> IF mask[i] THEN (10 * x[i]) \div 7 ELSE 0]
    ELSE x

\* oppai_net.py passes no training argument to F.dropout, whose default is True
DropoutActive(isTraining) == TRUE

\* OppaiNet.forward.  The four conv-bn-relu stages are one stage here.
\* m1, m2 are the decisions the two dropout layers draw.
OppaiForward(n, x, m1, m2) ==
  LET c1 == BatchNorm(Linear(n.params, x), n.training, n.running["bn"])
      a1 == [i \in DOMAIN x |-> Relu(c1.out[i])]
      f1 == BatchNorm(Linear(n.params, a1), n.training, n.running["fc_bn1"])
      d1 == Dropout([i \in DOMAIN x |-> Relu(f1.out[i])],
                    DropoutActive(n.training), m1)
      f2 == BatchNorm(Linear(n.params, d1), n.training, n.running["fc_bn2"])
      d2 == Dropout([i \in DOMAIN x |-> Relu(f2.out[i])],
                    DropoutActive(n.training), m2)
  IN  [net    |-> [n EXCEPT !.running = [l \in BNLayers |->
                                  CASE l = "bn"     -> c1.running
                                    [] l = "fc_bn1" -> f1.running
                                    [] l = "fc_bn2" -> f2.running],
                            !.tracked = IF n.training THEN @ + 1 ELSE @],
       policy |-> Linear(n.params, d2),
       value  |-> Linear(n.params, d2),
       mode   |-> IF n.training THEN "train" ELSE "eval",
       stats  |-> c1.used]

ModelForwardInPlace(n, x) ==
  [net    |-> [n EXCEPT !.params = @ + 1],
   policy |-> Linear(n.params, x),
   value  |-> Linear(n.params, x),
   mode   |-> IF n.training THEN "train" ELSE "eval",
   stats  |-> "none"]

\* Model.forward: the masked tower has neither batch-norm nor dropout layers,
\* its output is a function of the parameters and the input alone
\* (SpecForward evaluates that function).
ModelForward(n, x) ==
  [net    |-> n,
   policy |-> Linear(n.params, x),
   value  |-> Linear(n.params, x),
   mode   |-> IF n.training THEN "train" ELSE "eval",
   stats  |-> "none"]

\* self(inputs)
CallForward(v, n, x, m1, m2) ==
  IF v = "Model" THEN ModelForward(n, x) ELSE OppaiForward(n, x, m1, m2)

\* predict: Model switches to eval mode first, OppaiNet does not
PredictMode(v, n) == IF v = "Model" THEN SetEval(n) ELSE n

\* train_on: Model switches to training mode first, OppaiNet does not
TrainMode(v, n) == IF v = "Model" THEN SetTrain(n) ELSE n

\* gradient of total_loss = policies_loss + values_loss w.r.t. the parameter,
\* abstracted to the summed output error of this call
LossGradient(f, policies, values) ==
  SumSeq([i \in DOMAIN values |-> (f.value[i] - values[i])])
  - SumSeq([i \in DOMAIN policies |-> f.policy[i] * policies[i]])

ZeroGradSkipped(g) == g

\* optimizer.zero_grad()
ZeroGrad(g) == 0

\* total_loss.backward(): autograd adds the gradient to .grad
Backward(g, lg) == g + lg

\* optimizer.step(): the caller's optimizer, a unit step against the sign of
\* the gradient
OptimizerStep(p, g) == p - Sgn(g)

RtInit ==
  /\ variant \in Variants
  /\ net = NewNet(variant)
  /\ nops = 0
  /\ lastOp = "init"
  /\ fwdMode = "none"
  /\ bnStats = "none"
  /\ out = <<>>
  /\ outCopy = <<>>
  /\ lossGrad = 0
  /\ consumed = 0
  /\ steps = 0
  /\ gradBefore = 0

----------------------------------------------------------------------------
(* Model, the masked tower: layers (model.py)                              *)
(*                                                                         *)
(* A tensor is one row of cells, [1..n -> Int], one channel wide, its      *)
(* values in hundredths.  A layer record carries the channel counts its    *)
(* constructor is given (read by SpecShape) and its parameters (read by    *)
(* SpecForward).  Weights are in hundredths too: 100 is 1.0.               *)

INNER_CHANNELS == 192
RESIDUAL_INNER_CHANNELS == INNER_CHANNELS \div 2
RESIDUAL_BLOCKS == 5
RESIDUAL_SIZE == 2
GPOOL_EVERY == 2
GPOOL_CHANNELS == 32
V1_CHANNELS == 32
P1_CHANNELS == 32
G1_CHANNELS == 32

\* min size: 16, max size: 40, avg: (40 + 16) / 2 = 28
MinSize == 16
MaxSize == 40
\* the constant 5000.0 subtracted from the logits of invalid moves
MaskPenalty == 5000

\* product of two fixed-point numbers
FMul(a, b) == (a * b) \div 100

\* the largest r in lo..hi with r * r <= v, by bisection
RECURSIVE SqrtSearch(_, _, _)
SqrtSearch(v, lo, hi) ==
  IF lo >= hi THEN lo
  ELSE IF ((lo + hi + 1) \div 2) * ((lo + hi + 1) \div 2) <= v
         THEN SqrtSearch(v, (lo + hi + 1) \div 2, hi)
         ELSE SqrtSearch(v, lo, (lo + hi + 1) \div 2 - 1)

\* torch.sqrt of a whole number, in hundredths
Sqrt(v) == SqrtSearch(v * 10000, 0, 46340)

\* t[lo] + .. + t[hi], by halves
RECURSIVE SumRange(_, _, _)
SumRange(t, lo, hi) ==
  IF lo > hi THEN 0
  ELSE IF lo = hi THEN t[lo]
  ELSE SumRange(t, lo, (lo + hi) \div 2) + SumRange(t, (lo + hi) \div 2 + 1, hi)

\* torch.sum over the spatial dimensions
Sum(t) == SumRange(t, 1, Len(t))

\* torch.amax over the spatial dimensions
Amax(t) == CHOOSE m \in {t[i] : i \in DOMAIN t} : \A i \in DOMAIN t : t[i] <= m

\* nn.GELU, x * Phi(x), tabulated at these points and linear between them;
\* 0 (to the hundredth) below -3.0 and x above 3.0
GeluTable ==
  << <<-300, 0>>, <<-200, -5>>, <<-150, -10>>, <<-100, -16>>, <<-75, -17>>,
     <<-50, -15>>, <<-25, -10>>, <<0, 0>>, <<25, 15>>, <<50, 35>>, <<75, 58>>,
     <<100, 84>>, <<150, 140>>, <<200, 195>>, <<300, 300>> >>

\* the segment of a table that holds x, and the value on that segment at x
Segment(table, x) ==
  CHOOSE j \in 1..(Len(table) - 1) : table[j][1] <= x /\ x < table[j + 1][1]

Interpolate(table, k, x) ==
  table[k][2] + ((x - table[k][1]) * (table[k + 1][2] - table[k][2]))
                  \div (table[k + 1][1] - table[k][1])

Gelu(x) ==
  IF x <= -300 THEN 0
  ELSE IF x >= 300 THEN x
  ELSE Interpolate(GeluTable, Segment(GeluTable, x), x)

\* nn.GELU applied to a tensor
Act(t) == [i \in DOMAIN t |-> Gelu(t[i])]

\* NormMask.__init__
NewNormMask(prm, channels, gamma_init) ==
  [channels |-> channels, gamma_init |-> gamma_init,
   gamma |-> 100, beta |-> prm.beta]

NormMaskUnmasked(layer, inputs, mask) ==
  IF layer.gamma_init
    THEN [i \in DOMAIN inputs |-> FMul(inputs[i], layer.gamma) + layer.beta]
    ELSE [i \in DOMAIN inputs |-> inputs[i] + layer.beta]

\* NormMask.forward
NormMask(layer, inputs, mask) ==
  IF layer.gamma_init
    THEN [i \in DOMAIN inputs |->
            (FMul(inputs[i], layer.gamma) + layer.beta) * mask[i]]
    ELSE [i \in DOMAIN inputs |-> (inputs[i] + layer.beta) * mask[i]]

MaxOperandUnshifted(inputs, mask) == inputs

\* inputs + (mask - 1.0)
MaxOperand(inputs, mask) ==
  [i \in DOMAIN inputs |-> inputs[i] + (mask[i] - 1) * 100]

\* mask_sum_hw_sqrt_offset = torch.sqrt(mask_sum_hw) - 28.0
SqrtOffset(mask_sum_hw) == Sqrt(mask_sum_hw) - 2800

\* layer_mean = torch.sum(inputs) / mask_sum_hw
LayerMean(inputs, mask_sum_hw) == Sum(inputs) \div mask_sum_hw

\* the factor (mask_sum_hw_sqrt_offset / 10.0) of out_pool2
LinearFactor(mask_sum_hw) == SqrtOffset(mask_sum_hw) \div 10

\* layer_max = torch.amax(inputs + (mask - 1.0))
LayerMax(inputs, mask) == Amax(MaxOperand(inputs, mask))

\* <<out_pool1, out_pool2, out_pool3>> of gpool_forward
PoolForward(layer_mean, factor, layer_max) ==
  <<layer_mean, FMul(layer_mean, factor), layer_max>>

\* gpool_forward
gpool_forward(inputs, mask, mask_sum_hw) ==
  PoolForward(LayerMean(inputs, mask_sum_hw), LinearFactor(mask_sum_hw),
              LayerMax(inputs, mask))

\* nn.Conv2d(in_channels, out_channels, kernel_size, padding = 'same')
NewConv2d(in_channels, out_channels, kernel_size, weight, bias) ==
  [in_channels |-> in_channels, out_channels |-> out_channels,
   kernel_size |-> kernel_size, weight |-> weight, bias |-> bias]

\* the kernels every 3-wide and every 1-wide convolution carries
Kernel(prm, kernel_size) ==
  IF kernel_size = 3 THEN <<prm.ws, 50, prm.ws>> ELSE <<50>>

\* a cell outside the board is zero padding
At(t, i) == IF i \in DOMAIN t THEN t[i] ELSE 0

\* nn.Conv2d.forward
Conv2d(layer, inputs) ==
  IF layer.kernel_size = 3
    THEN [i \in DOMAIN inputs |->
            (layer.weight[1] * At(inputs, i - 1) + layer.weight[2] * inputs[i]
             + layer.weight[3] * At(inputs, i + 1)) \div 100 + layer.bias]
    ELSE [i \in DOMAIN inputs |-> FMul(layer.weight[1], inputs[i]) + layer.bias]

\* nn.Linear(in_features, out_features) on the three pooled values
NewLinear(in_features, out_features, weight, bias) ==
  [in_features |-> in_features, out_features |-> out_features,
   weight |-> weight, bias |-> bias]

LinearForward(layer, v) ==
  (layer.weight[1] * v[1] + layer.weight[2] * v[2] + layer.weight[3] * v[3])
    \div 100 + layer.bias

\* what a layer returns: its output, the tensors it fed to convolutions and
\* the global poolings it made
Ret(o, fed, pools) == [out |-> o, fed |-> fed, pools |-> pools]

NewConvAndGPoolWide(prm) ==
  [conv1r  |-> NewConv2d(RESIDUAL_INNER_CHANNELS,
                         RESIDUAL_INNER_CHANNELS - GPOOL_CHANNELS, 3,
                         Kernel(prm, 3), prm.cb),
   conv1g  |-> NewConv2d(RESIDUAL_INNER_CHANNELS, GPOOL_CHANNELS, 3,
                         Kernel(prm, 3), prm.cb),
   normg   |-> NewNormMask(prm, GPOOL_CHANNELS, FALSE),
   linearg |-> NewLinear(3 * GPOOL_CHANNELS, RESIDUAL_INNER_CHANNELS,
                         <<50, 50, 50>>, prm.cb)]

\* ConvAndGPool.__init__
NewConvAndGPool(prm) ==
  [conv1r  |-> NewConv2d(RESIDUAL_INNER_CHANNELS,
                         RESIDUAL_INNER_CHANNELS - GPOOL_CHANNELS, 3,
                         Kernel(prm, 3), prm.cb),
   conv1g  |-> NewConv2d(RESIDUAL_INNER_CHANNELS, GPOOL_CHANNELS, 3,
                         Kernel(prm, 3), prm.cb),
   normg   |-> NewNormMask(prm, GPOOL_CHANNELS, FALSE),
   linearg |-> NewLinear(3 * GPOOL_CHANNELS,
                         RESIDUAL_INNER_CHANNELS - GPOOL_CHANNELS,
                         <<50, 50, 50>>, prm.cb)]

\* a gpool_forward call: what it was given and what it returned
Pooling(inputs, mask, mask_sum_hw) ==
  [inputs |-> inputs, mask |-> mask,
   pooled |-> gpool_forward(inputs, mask, mask_sum_hw)]

\* return outr + outg, outg = linearg(gpool_forward(outg)) broadcast over
\* the cells
ConvAndGPoolSum(layer, inputs, outr, pooling) ==
  Ret([i \in DOMAIN inputs |->
         outr[i] + LinearForward(layer.linearg, pooling.pooled)],
      {[layer |-> "conv1r", input |-> inputs],
       [layer |-> "conv1g", input |-> inputs]},
      {pooling})

\* ConvAndGPool.forward
ConvAndGPool(layer, inputs, mask, mask_sum_hw) ==
  ConvAndGPoolSum(layer, inputs, Conv2d(layer.conv1r, inputs),
    Pooling(Act(NormMask(layer.normg, Conv2d(layer.conv1g, inputs), mask)),
            mask, mask_sum_hw))

\* ConvOrGpool.__init__
NewConvOrGpool(prm, gpool, in_channels, out_channels, kernel_size) ==
  [is_gpool |-> gpool,
   layer |-> IF gpool THEN NewConvAndGPool(prm)
             ELSE NewConv2d(in_channels, out_channels, kernel_size,
                            Kernel(prm, kernel_size), prm.cb)]

\* ConvOrGpool.forward
ConvOrGpool(layer, inputs, mask, mask_sum_hw, name) ==
  IF layer.is_gpool
    THEN ConvAndGPool(layer.layer, inputs, mask, mask_sum_hw)
    ELSE Ret(Conv2d(layer.layer, inputs),
             {[layer |-> name, input |-> inputs]}, {})

\* NormActConv.__init__
NewNormActConv(prm, gamma, gpool, in_channels, out_channels, kernel_size) ==
  [norm      |-> NewNormMask(prm, in_channels, gamma),
   convgpool |-> NewConvOrGpool(prm, gpool, in_channels, out_channels,
                                kernel_size)]

\* NormActConv.forward
NormActConv(layer, inputs, mask, mask_sum_hw, name) ==
  ConvOrGpool(layer.convgpool, Act(NormMask(layer.norm, inputs, mask)),
              mask, mask_sum_hw, name)

InCh2Full(gpool) == RESIDUAL_INNER_CHANNELS

\* in_ch_2 of InnerResidualBlock.__init__
InCh2(gpool) ==
  IF gpool THEN RESIDUAL_INNER_CHANNELS - GPOOL_CHANNELS
  ELSE RESIDUAL_INNER_CHANNELS

\* InnerResidualBlock.__init__
NewInnerResidualBlock(prm, gpool) ==
  [normactconv1 |-> NewNormActConv(prm, FALSE, gpool, RESIDUAL_INNER_CHANNELS,
                                   RESIDUAL_INNER_CHANNELS, 3),
   normactconv2 |-> NewNormActConv(prm, TRUE, FALSE, InCh2(gpool),
                                   RESIDUAL_INNER_CHANNELS, 3)]

\* the output of r2, with what r1 and r2 fed and pooled
After(r1, r2) == Ret(r2.out, r1.fed \cup r2.fed, r1.pools \cup r2.pools)

\* return inputs + out
AddSkip(inputs, r) ==
  Ret([i \in DOMAIN inputs |-> inputs[i] + r.out[i]], r.fed, r.pools)

\* out = self.normactconv2(out, mask, mask_sum_hw)
InnerSecond(layer, r1, mask, mask_sum_hw) ==
  After(r1, NormActConv(layer.normactconv2, r1.out, mask, mask_sum_hw,
                        "normactconv2"))

\* InnerResidualBlock.forward
InnerResidualBlock(layer, inputs, mask, mask_sum_hw) ==
  AddSkip(inputs,
    InnerSecond(layer,
                NormActConv(layer.normactconv1, inputs, mask, mask_sum_hw,
                            "normactconv1"),
                mask, mask_sum_hw))

\* ResidualBlock.__init__
NewResidualBlock(prm, gpool) ==
  [normactconvp |-> NewNormActConv(prm, FALSE, FALSE, INNER_CHANNELS,
                                   RESIDUAL_INNER_CHANNELS, 1),
   inner |-> [i \in 1..RESIDUAL_SIZE |->
                NewInnerResidualBlock(prm, gpool /\ (i - 1 = 0))],
   normactconvq |-> NewNormActConv(prm, TRUE, FALSE, RESIDUAL_INNER_CHANNELS,
                                   INNER_CHANNELS, 1)]

\* for inner in self.inner: out = inner(out, mask, mask_sum_hw)
RECURSIVE RunInner(_, _, _, _, _)
RunInner(layers, k, acc, mask, mask_sum_hw) ==
  IF k > Len(layers) THEN acc
  ELSE RunInner(layers, k + 1,
                After(acc, InnerResidualBlock(layers[k], acc.out, mask,
                                              mask_sum_hw)),
                mask, mask_sum_hw)

\* out = self.normactconvq(out, mask, mask_sum_hw)
ProjectUp(layer, m, mask, mask_sum_hw) ==
  After(m, NormActConv(layer.normactconvq, m.out, mask, mask_sum_hw,
                       "normactconvq"))

\* ResidualBlock.forward
ResidualBlock(layer, inputs, mask, mask_sum_hw) ==
  AddSkip(inputs,
    ProjectUp(layer,
              RunInner(layer.inner, 1,
                       NormActConv(layer.normactconvp, inputs, mask,
                                   mask_sum_hw, "normactconvp"),
                       mask, mask_sum_hw),
              mask, mask_sum_hw))

\* torch.tanh, tabulated like Gelu; odd, and 0.99 beyond 3.0
TanhTable ==
  << <<0, 0>>, <<25, 24>>, <<50, 46>>, <<75, 64>>, <<100, 76>>, <<150, 91>>,
     <<200, 96>>, <<300, 99>> >>

TanhPos(x) ==
  IF x >= 300 THEN 99
  ELSE Interpolate(TanhTable, Segment(TanhTable, x), x)

Tanh(x) == IF x >= 0 THEN TanhPos(x) ELSE 0 - TanhPos(0 - x)

\* ValueHead.__init__
NewValueHead(prm) ==
  [conv1   |-> NewConv2d(INNER_CHANNELS, V1_CHANNELS, 1, Kernel(prm, 1), prm.cb),
   bias1   |-> NewNormMask(prm, V1_CHANNELS, FALSE),
   linear2 |-> NewLinear(3 * V1_CHANNELS, 1, <<50, 50, 50>>, prm.cb)]

QuadraticFactorRounded(mask_sum_hw) ==
  FMul(SqrtOffset(mask_sum_hw), SqrtOffset(mask_sum_hw)) \div 100 - 50

\* the factor (mask_sum_hw_sqrt_offset ** 2 / 100.0 - 0.52) of out_pool3
QuadraticFactor(mask_sum_hw) ==
  FMul(SqrtOffset(mask_sum_hw), SqrtOffset(mask_sum_hw)) \div 100 - 52

\* <<out_pool1, out_pool2, out_pool3>> of gpool_value
PoolValue(layer_mean, linear, quadratic) ==
  <<layer_mean, FMul(layer_mean, linear), FMul(layer_mean, quadratic)>>

\* ValueHead.gpool_value
gpool_value(inputs, mask_sum_hw) ==
  PoolValue(LayerMean(inputs, mask_sum_hw), LinearFactor(mask_sum_hw),
            QuadraticFactor(mask_sum_hw))

\* ValueHead.forward
ValueHead(layer, inputs, mask, mask_sum_hw) ==
  [out   |-> Tanh(LinearForward(layer.linear2,
               gpool_value(Act(NormMask(layer.bias1,
                                        Conv2d(layer.conv1, inputs), mask)),
                           mask_sum_hw))),
   fed   |-> {[layer |-> "value_head.conv1", input |-> inputs]},
   pools |-> {}]

\* PolicyHead.__init__
NewPolicyHead(prm) ==
  [conv1p  |-> NewConv2d(INNER_CHANNELS, P1_CHANNELS, 1, Kernel(prm, 1), prm.cb),
   conv1g  |-> NewConv2d(INNER_CHANNELS, G1_CHANNELS, 1, Kernel(prm, 1), prm.cb),
   biasg   |-> NewNormMask(prm, G1_CHANNELS, FALSE),
   linearg |-> NewLinear(3 * G1_CHANNELS, P1_CHANNELS, <<50, 50, 50>>, prm.cb),
   bias2   |-> NewNormMask(prm, P1_CHANNELS, FALSE),
   conv2p  |-> NewConv2d(P1_CHANNELS, 1, 1, <<prm.w2p>>, prm.cb)]

MaskInvalidOmitted(outp, mask) == outp

\* outp - (1.0 - mask) * 5000.0
MaskInvalid(outp, mask) ==
  [i \in DOMAIN outp |-> outp[i] - (1 - mask[i]) * (MaskPenalty * 100)]

\* ln n <= n - 1
LnUpper(n) == 100 * (n - 1)

\* F.log_softmax: z[i] - log(sum(exp(z))).  The log-sum-exp lies between
\* max(z) and max(z) + ln(len(z)), so each log-probability is bracketed:
\* lo <= log_softmax(z)[i] <= hi
log_softmax(z) ==
  [i \in DOMAIN z |-> [lo |-> z[i] - Amax(z) - LnUpper(Len(z)),
                       hi |-> z[i] - Amax(z)]]

\* outp = self.conv2p(outp); masking invalid moves; F.log_softmax
PolicyLogits(layer, inputs, mask, pooling, outp, logits) ==
  [out    |-> log_softmax(MaskInvalid(logits, mask)),
   logits |-> logits,
   masked |-> MaskInvalid(logits, mask),
   fed    |-> {[layer |-> "policy_head.conv1p", input |-> inputs],
               [layer |-> "policy_head.conv1g", input |-> inputs],
               [layer |-> "policy_head.conv2p", input |-> outp]},
   pools  |-> {pooling}]

\* outp = self.act2(self.bias2(outp, mask))
PolicyAct(layer, inputs, mask, pooling, outp) ==
  PolicyLogits(layer, inputs, mask, pooling, outp, Conv2d(layer.conv2p, outp))

\* outp = outp + outg, outg = linearg(gpool_forward(outg)) broadcast over
\* the cells
PolicySum(layer, inputs, mask, outp, pooling) ==
  PolicyAct(layer, inputs, mask, pooling,
    Act(NormMask(layer.bias2,
                 [i \in DOMAIN inputs |->
                    outp[i] + LinearForward(layer.linearg, pooling.pooled)],
                 mask)))

\* PolicyHead.forward
PolicyHead(layer, inputs, mask, mask_sum_hw) ==
  PolicySum(layer, inputs, mask, Conv2d(layer.conv1p, inputs),
    Pooling(Act(NormMask(layer.biasg, Conv2d(layer.conv1g, inputs), mask)),
            mask, mask_sum_hw))

\* Model.__init__
NewModel(prm, num_channels) ==
  [initial_conv    |-> NewConv2d(num_channels, INNER_CHANNELS, 3,
                                 Kernel(prm, 3), prm.cb),
   residuals       |-> [i \in 1..RESIDUAL_BLOCKS |->
                          NewResidualBlock(prm, i % GPOOL_EVERY = 0)],
   norm_trunkfinal |-> NewNormMask(prm, INNER_CHANNELS, FALSE),
   value_head      |-> NewValueHead(prm),
   policy_head     |-> NewPolicyHead(prm)]

----------------------------------------------------------------------------
(* Model.forward on a small board, stage by stage (SpecForward)            *)

\* cells of the board row
BoardCells == 3

VARIABLES
  board,    \* the input x: channel 0 the mask, channel 1 a feature plane
  prm,      \* the parameter setting of the network
  stage,    \* the statement of Model.forward about to run
  blk,      \* the residual block about to run
  trunk,    \* x, the tensor carried along the trunk
  fed,      \* every tensor a convolution has been given so far
  pools,    \* every gpool_forward call made so far
  policy,   \* what the policy head returned
  value     \* what the value head returned

fwVars == <<board, prm, stage, blk, trunk, fed, pools, policy, value>>

Cells == 1..BoardCells

\* mask = x[:, 0:1, :, :] is binary with at least one legal cell; the other
\* channel is whatever the caller supplies
Boards ==
  {b \in [mask : [Cells -> {0, 1}], feat : [Cells -> {0, 100}]] :
     \E i \in Cells : b.mask[i] = 1}

\* parameter settings: side weight of the 3-wide kernels, bias of the
\* convolutions and linear layers, beta of the NormMask layers, weight of
\* the policy head's last convolution
Params == [ws : {0, 25}, cb : {0, 10}, beta : {-50, 50}, w2p : {100, -600000}]

\* channels of the board tensor in SpecForward: the mask and one feature plane
NumPlanes == 2

TheModel == NewModel(prm, NumPlanes)

\* mask_sum_hw = torch.sum(mask, dim=(2, 3), keepdim=True)
MaskSum(mask) == Sum(mask)

NoPolicy == [out |-> <<>>, logits |-> <<>>, masked |-> <<>>]

FwInit ==
  /\ board \in Boards
  /\ prm \in Params
  /\ stage = "initial_conv"
  /\ blk = 1
  /\ trunk = <<>>
  /\ fed = {}
  /\ pools = {}
  /\ policy = NoPolicy
  /\ value = 0

\* channel 0 of the input, the mask, as a plane of 0.0 and 1.0
Plane0(mask) == [i \in DOMAIN mask |-> 100 * mask[i]]

\* self.initial_conv on the two planes of the input: the sum of the kernel
\* applied to each plane, plus the bias
InitialConv2d(layer, plane0, plane1) ==
  [i \in DOMAIN plane0 |->
     Conv2d([layer EXCEPT !.bias = 0], plane0)[i] + Conv2d(layer, plane1)[i]]

----------------------------------------------------------------------------
(* Channel counts along Model.forward (SpecShape)                          *)
(*                                                                         *)
(* A shape is the (channels, height, width) of a tensor; the shape of a    *)
(* call the runtime rejects (a channel or feature mismatch) is ErrShape.   *)

\* channels of the board tensor are 1 .. MaxNumChannels
MaxNumChannels == 3

VARIABLES
  shInput,   \* shape of the input x
  shStage,   \* the statement of Model.forward about to run
  shBlk,     \* the residual block about to run
  shape,     \* shape of x, the tensor carried along the trunk
  shAdds,    \* the additions made so far: where, and the channels of each side
  shInner,   \* the inner residual blocks run: channels in and out of each unit
  shOuter,   \* the outer residual blocks run: channels in and out
  shPolicy,  \* shape of the policy returned
  shValue    \* shape of the value returned

shVars == <<shInput, shStage, shBlk, shape, shAdds, shInner, shOuter,
            shPolicy, shValue>>

ErrShape == [c |-> 0, h |-> 0, w |-> 0]

\* the parameter values play no part in the shapes
ShapePrm == [ws |-> 0, cb |-> 0, beta |-> 0, w2p |-> 100]

\* what a layer returns: the shape of its output, the additions it made and
\* the inner residual blocks it ran
RetShape(o, adds, inner) == [out |-> o, adds |-> adds, inner |-> inner]

\* nn.Conv2d with padding = 'same': the input must have in_channels channels
Conv2dShape(layer, sh) ==
  IF sh.c = layer.in_channels /\ sh # ErrShape
    THEN [sh EXCEPT !.c = layer.out_channels]
    ELSE ErrShape

\* NormMask.forward: beta is (1, channels, 1, 1) and the mask (B, 1, H, W),
\* both broadcast against the input
NormMaskShape(layer, sh) ==
  IF sh = ErrShape THEN ErrShape
  ELSE IF sh.c = layer.channels \/ layer.channels = 1 THEN sh
  ELSE IF sh.c = 1 THEN [sh EXCEPT !.c = layer.channels]
  ELSE ErrShape

\* gpool_forward / gpool_value: torch.cat of three (B, C, 1, 1) tensors
GPoolShape(sh) ==
  IF sh = ErrShape THEN ErrShape ELSE [c |-> 3 * sh.c, h |-> 1, w |-> 1]

\* nn.Linear on the pooled tensor flattened to (B, features), unsqueezed back
\* to (B, out_features, 1, 1)
LinearShape(layer, sh) ==
  IF sh # ErrShape /\ sh.c * sh.h * sh.w = layer.in_features
    THEN [c |-> layer.out_features, h |-> 1, w |-> 1]
    ELSE ErrShape

Bigger(a, b) == IF a >= b THEN a ELSE b

\* a + b with broadcasting: each dimension equal, or 1 on one side
AddShape(a, b) ==
  IF /\ a # ErrShape /\ b # ErrShape
     /\ (a.c = b.c \/ a.c = 1 \/ b.c = 1)
     /\ (a.h = b.h \/ a.h = 1 \/ b.h = 1)
     /\ (a.w = b.w \/ a.w = 1 \/ b.w = 1)
    THEN [c |-> Bigger(a.c, b.c), h |-> Bigger(a.h, b.h), w |-> Bigger(a.w, b.w)]
    ELSE ErrShape

\* an addition: where it is made and the channels of its two sides
Addition(where, a, b) == [where |-> where, left |-> a.c, right |-> b.c]

\* return outr + outg
ConvAndGPoolAdd(outr, outg) ==
  RetShape(AddShape(outr, outg), {Addition("ConvAndGPool", outr, outg)}, {})

\* ConvAndGPool.forward
ConvAndGPoolShape(layer, sh) ==
  ConvAndGPoolAdd(Conv2dShape(layer.conv1r, sh),
    LinearShape(layer.linearg,
      GPoolShape(NormMaskShape(layer.normg, Conv2dShape(layer.conv1g, sh)))))

\* ConvOrGpool.forward
ConvOrGpoolShape(layer, sh) ==
  IF layer.is_gpool THEN ConvAndGPoolShape(layer.layer, sh)
  ELSE RetShape(Conv2dShape(layer.layer, sh), {}, {})

\* NormActConv.forward (the activation keeps the shape)
NormActConvShape(layer, sh) ==
  ConvOrGpoolShape(layer.convgpool, NormMaskShape(layer.norm, sh))

\* return inputs + out, of an inner block whose units returned r1 and r2
InnerAdd(layer, sh, r1, r2) ==
  RetShape(AddShape(sh, r2.out),
           r1.adds \cup r2.adds \cup {Addition("InnerResidualBlock", sh, r2.out)},
           {[gpool |-> layer.normactconv1.convgpool.is_gpool, cin |-> sh.c,
             unit1 |-> r1.out.c, unit2 |-> r2.out.c,
             cout |-> AddShape(sh, r2.out).c]})

\* out = self.normactconv2(out, mask, mask_sum_hw)
InnerSecondShape(layer, sh, r1) ==
  InnerAdd(layer, sh, r1, NormActConvShape(layer.normactconv2, r1.out))

\* InnerResidualBlock.forward
InnerResidualBlockShape(layer, sh) ==
  InnerSecondShape(layer, sh, NormActConvShape(layer.normactconv1, sh))

\* the output of r2, with the additions and inner blocks of r1 and r2
AfterShape(r1, r2) ==
  RetShape(r2.out, r1.adds \cup r2.adds, r1.inner \cup r2.inner)

\* for inner in self.inner: out = inner(out, mask, mask_sum_hw)
RECURSIVE RunInnerShape(_, _, _)
RunInnerShape(layers, k, acc) ==
  IF k > Len(layers) THEN acc
  ELSE RunInnerShape(layers, k + 1,
                     AfterShape(acc, InnerResidualBlockShape(layers[k], acc.out)))

\* return inputs + out, of an outer block
OuterAdd(sh, r) ==
  RetShape(AddShape(sh, r.out),
           r.adds \cup {Addition("ResidualBlock", sh, r.out)}, r.inner)

\* out = self.normactconvq(out, mask, mask_sum_hw)
ProjectUpShape(layer, m) ==
  AfterShape(m, NormActConvShape(layer.normactconvq, m.out))

\* ResidualBlock.forward
ResidualBlockShape(layer, sh) ==
  OuterAdd(sh,
    ProjectUpShape(layer,
      RunInnerShape(layer.inner, 1, NormActConvShape(layer.normactconvp, sh))))

\* ValueHead.forward: the scalar per sample is the shape (1, 1, 1)
ValueHeadShape(layer, sh) ==
  LinearShape(layer.linear2,
    GPoolShape(NormMaskShape(layer.bias1, Conv2dShape(layer.conv1, sh))))

\* outp = outp + outg, then bias2, act2, conv2p and the reshape to the grid
PolicyAddShape(layer, outp, outg) ==
  RetShape(Conv2dShape(layer.conv2p,
                       NormMaskShape(layer.bias2, AddShape(outp, outg))),
           {Addition("PolicyHead", outp, outg)}, {})

\* PolicyHead.forward
PolicyHeadShape(layer, sh) ==
  PolicyAddShape(layer, Conv2dShape(layer.conv1p, sh),
    LinearShape(layer.linearg,
      GPoolShape(NormMaskShape(layer.biasg, Conv2dShape(layer.conv1g, sh)))))

\* Model(num_channels) for the input whose shape is shInput
ShapeModel == NewModel(ShapePrm, shInput.c)

ShInit ==
  /\ shInput \in [c : 1..MaxNumChannels, h : MinSize..MaxSize,
                  w : MinSize..MaxSize]
  /\ shStage = "initial_conv"
  /\ shBlk = 1
  /\ shape = shInput
  /\ shAdds = {}
  /\ shInner = {}
  /\ shOuter = {}
  /\ shPolicy = ErrShape
  /\ shValue = ErrShape

----------------------------------------------------------------------------
(* The board-size factors over the supported sides (SpecCalib)             *)

\* the activations of the swept boards are -MaxMean.0 .. MaxMean.0
MaxMean == 2
\* the small epsilon of the policy claims is exp(-NegLogEps)
NegLogEps == 20

VARIABLES
  calSide,    \* side of the next board of the sweep
  calMean,    \* the activation every cell of the swept boards holds
  calLinear,  \* sum of out_pool2 over the boards swept so far
  calQuad     \* sum of out_pool3 over the boards swept so far

calVars == <<calSide, calMean, calLinear, calQuad>>

\* a fully legal square board of side n whose every cell holds c
FullBoard(n, c) == [i \in 1..(n * n) |-> c]

CalInit ==
  /\ calSide = MinSize
  /\ calMean \in {100 * k : k \in 1..MaxMean} \cup {-100 * k : k \in 1..MaxMean}
  /\ calLinear = 0
  /\ calQuad = 0

----------------------------------------------------------------------------
(* The four specifications                                                 *)

vars == <<rtVars, fwVars, shVars, calVars>>

\* the variables of the other specifications stay as they start
RtIdle ==
  /\ variant = "Model" /\ net = NewNet("Model") /\ nops = 0 /\ lastOp = "init"
  /\ fwdMode = "none" /\ bnStats = "none" /\ out = <<>> /\ outCopy = <<>>
  /\ lossGrad = 0 /\ consumed = 0 /\ steps = 0 /\ gradBefore = 0

FwIdle ==
  /\ board = [mask |-> <<>>, feat |-> <<>>] /\ prm = ShapePrm
  /\ stage = "idle" /\ blk = 0 /\ trunk = <<>> /\ fed = {} /\ pools = {}
  /\ policy = NoPolicy /\ value = 0

ShIdle ==
  /\ shInput = ErrShape /\ shStage = "idle" /\ shBlk = 0 /\ shape = ErrShape
  /\ shAdds = {} /\ shInner = {} /\ shOuter = {}
  /\ shPolicy = ErrShape /\ shValue = ErrShape

CalIdle ==
  /\ calSide = 0 /\ calMean = 0 /\ calLinear = 0 /\ calQuad = 0

(* Spec: the operations of one network object *)

Init == RtInit /\ FwIdle /\ ShIdle /\ CalIdle

\* net(inputs), called directly
Forward ==
  /\ nops < MaxOps
  /\ \E x \in Batches, m1 \in DropMasks(variant), m2 \in DropMasks(variant) :
       \E f \in {CallForward(variant, net, x, m1, m2)} :
         /\ net' = f.net
         /\ fwdMode' = f.mode
         /\ bnStats' = f.stats
         /\ out' = <<f.policy, f.value>>
         /\ outCopy' = <<f.policy, f.value>>
  /\ nops' = nops + 1
  /\ lastOp' = "forward"
  /\ UNCHANGED <<variant, lossGrad, consumed, steps, gradBefore>>
  /\ UNCHANGED <<fwVars, shVars, calVars>>

\* predict(inputs), run on the network and on a copy of it: the mode switch
\* (Model only), then the forward pass; torch.exp of the policy is left out
Predict ==
  /\ nops < MaxOps
  /\ \E x \in Batches, m1 \in DropMasks(variant), m2 \in DropMasks(variant),
        c1 \in DropMasks(variant), c2 \in DropMasks(variant) :
       \E f \in {CallForward(variant, PredictMode(variant, net), x, m1, m2)},
          fc \in {CallForward(variant, PredictMode(variant, net), x, c1, c2)} :
         /\ net' = f.net
         /\ fwdMode' = f.mode
         /\ bnStats' = f.stats
         /\ out' = <<f.policy, f.value>>
         /\ outCopy' = <<fc.policy, fc.value>>
  /\ nops' = nops + 1
  /\ lastOp' = "predict"
  /\ UNCHANGED <<variant, lossGrad, consumed, steps, gradBefore>>
  /\ UNCHANGED <<fwVars, shVars, calVars>>

\* train_on(optimizer, inputs, policies, values): the mode switch (Model
\* only), the forward pass, the loss, optimizer.zero_grad(),
\* total_loss.backward(), optimizer.step()
TrainOn ==
  /\ nops < MaxOps
  /\ \E x \in Batches, m1 \in DropMasks(variant), m2 \in DropMasks(variant),
        policies \in Targets, values \in Targets :
       \E f \in {CallForward(variant, TrainMode(variant, net), x, m1, m2)} :
         \E lg \in {LossGradient(f, policies, values)} :
           \E g \in {Backward(ZeroGrad(f.net.grad), lg)} :
             /\ net' = [f.net EXCEPT !.grad = g,
                                     !.params = OptimizerStep(f.net.params, g)]
             /\ fwdMode' = f.mode
             /\ bnStats' = f.stats
             /\ out' = <<f.policy, f.value>>
             /\ outCopy' = <<f.policy, f.value>>
             /\ lossGrad' = lg
             /\ consumed' = g
  /\ gradBefore' = net.grad
  /\ nops' = nops + 1
  /\ lastOp' = "train_on"
  /\ steps' = steps + 1
  /\ UNCHANGED variant
  /\ UNCHANGED <<fwVars, shVars, calVars>>

Next == Forward \/ Predict \/ TrainOn

Spec == Init /\ [][Next]_vars

(* SpecForward: Model.forward on a small board *)

InitForward == FwInit /\ RtIdle /\ ShIdle /\ CalIdle

\* x = self.initial_conv(x)
InitialConv ==
  /\ stage = "initial_conv"
  /\ trunk' = InitialConv2d(TheModel.initial_conv, Plane0(board.mask),
                            board.feat)
  /\ fed' = {[layer |-> "initial_conv", input |-> Plane0(board.mask)],
             [layer |-> "initial_conv", input |-> board.feat]}
  /\ stage' = "residuals"
  /\ UNCHANGED <<board, prm, blk, pools, policy, value>>
  /\ UNCHANGED <<rtVars, shVars, calVars>>

\* for residual in self.residuals: x = residual(x, mask, mask_sum_hw)
Residual ==
  /\ stage = "residuals"
  /\ \E r \in {ResidualBlock(TheModel.residuals[blk], trunk, board.mask,
                             MaskSum(board.mask))} :
       /\ trunk' = r.out
       /\ fed' = fed \cup r.fed
       /\ pools' = pools \cup r.pools
  /\ blk' = blk + 1
  /\ stage' = IF blk = RESIDUAL_BLOCKS THEN "trunkfinal" ELSE "residuals"
  /\ UNCHANGED <<board, prm, policy, value>>
  /\ UNCHANGED <<rtVars, shVars, calVars>>

\* x = self.act_trunkfinal(self.norm_trunkfinal(x, mask))
TrunkFinal ==
  /\ stage = "trunkfinal"
  /\ trunk' = Act(NormMask(TheModel.norm_trunkfinal, trunk, board.mask))
  /\ stage' = "policy_head"
  /\ UNCHANGED <<board, prm, blk, fed, pools, policy, value>>
  /\ UNCHANGED <<rtVars, shVars, calVars>>

\* policy = self.policy_head(x, mask, mask_sum_hw)
RunPolicyHead ==
  /\ stage = "policy_head"
  /\ \E r \in {PolicyHead(TheModel.policy_head, trunk, board.mask,
                          MaskSum(board.mask))} :
       /\ policy' = [out |-> r.out, logits |-> r.logits, masked |-> r.masked]
       /\ fed' = fed \cup r.fed
       /\ pools' = pools \cup r.pools
  /\ stage' = "value_head"
  /\ UNCHANGED <<board, prm, blk, trunk, value>>
  /\ UNCHANGED <<rtVars, shVars, calVars>>

\* value = self.value_head(x, mask, mask_sum_hw); return policy, value
RunValueHead ==
  /\ stage = "value_head"
  /\ \E r \in {ValueHead(TheModel.value_head, trunk, board.mask,
                         MaskSum(board.mask))} :
       /\ value' = r.out
       /\ fed' = fed \cup r.fed
  /\ stage' = "done"
  /\ UNCHANGED <<board, prm, blk, trunk, pools, policy>>
  /\ UNCHANGED <<rtVars, shVars, calVars>>

NextForward ==
  InitialConv \/ Residual \/ TrunkFinal \/ RunPolicyHead \/ RunValueHead

SpecForward == InitForward /\ [][NextForward]_vars

(* SpecShape: the shapes along Model.forward *)

InitShape == ShInit /\ RtIdle /\ FwIdle /\ CalIdle

\* x = self.initial_conv(x)
ShapeInitialConv ==
  /\ shStage = "initial_conv"
  /\ shape' = Conv2dShape(ShapeModel.initial_conv, shape)
  /\ shStage' = "residuals"
  /\ UNCHANGED <<shInput, shBlk, shAdds, shInner, shOuter, shPolicy, shValue>>
  /\ UNCHANGED <<rtVars, fwVars, calVars>>

\* for residual in self.residuals: x = residual(x, mask, mask_sum_hw)
ShapeResidual ==
  /\ shStage = "residuals"
  /\ \E r \in {ResidualBlockShape(ShapeModel.residuals[shBlk], shape)} :
       /\ shape' = r.out
       /\ shAdds' = shAdds \cup r.adds
       /\ shInner' = shInner \cup r.inner
       /\ shOuter' = shOuter \cup {[blk |-> shBlk, cin |-> shape.c,
                                    cout |-> r.out.c]}
  /\ shBlk' = shBlk + 1
  /\ shStage' = IF shBlk = RESIDUAL_BLOCKS THEN "trunkfinal" ELSE "residuals"
  /\ UNCHANGED <<shInput, shPolicy, shValue>>
  /\ UNCHANGED <<rtVars, fwVars, calVars>>

\* x = self.act_trunkfinal(self.norm_trunkfinal(x, mask))
ShapeTrunkFinal ==
  /\ shStage = "trunkfinal"
  /\ shape' = NormMaskShape(ShapeModel.norm_trunkfinal, shape)
  /\ shStage' = "policy_head"
  /\ UNCHANGED <<shInput, shBlk, shAdds, shInner, shOuter, shPolicy, shValue>>
  /\ UNCHANGED <<rtVars, fwVars, calVars>>

\* policy = self.policy_head(x, mask, mask_sum_hw)
ShapePolicyHead ==
  /\ shStage = "policy_head"
  /\ \E r \in {PolicyHeadShape(ShapeModel.policy_head, shape)} :
       /\ shPolicy' = r.out
       /\ shAdds' = shAdds \cup r.adds
  /\ shStage' = "value_head"
  /\ UNCHANGED <<shInput, shBlk, shape, shInner, shOuter, shValue>>
  /\ UNCHANGED <<rtVars, fwVars, calVars>>

\* value = self.value_head(x, mask, mask_sum_hw); return policy, value
ShapeValueHead ==
  /\ shStage = "value_head"
  /\ shValue' = ValueHeadShape(ShapeModel.value_head, shape)
  /\ shStage' = "done"
  /\ UNCHANGED <<shInput, shBlk, shape, shAdds, shInner, shOuter, shPolicy>>
  /\ UNCHANGED <<rtVars, fwVars, calVars>>

NextShape ==
  \/ ShapeInitialConv \/ ShapeResidual \/ ShapeTrunkFinal
  \/ ShapePolicyHead \/ ShapeValueHead

SpecShape == InitShape /\ [][NextShape]_vars

(* SpecCalib: the sweep over the supported sides *)

InitCalib == CalInit /\ RtIdle /\ FwIdle /\ ShIdle

\* ValueHead.gpool_value on the fully legal board of the next side
CalibBoard ==
  /\ calSide <= MaxSize
  /\ \E pooled \in {gpool_value(FullBoard(calSide, calMean),
                                calSide * calSide)} :
       /\ calLinear' = calLinear + pooled[2]
       /\ calQuad' = calQuad + pooled[3]
  /\ calSide' = calSide + 1
  /\ UNCHANGED calMean
  /\ UNCHANGED <<rtVars, fwVars, shVars>>

NextCalib == CalibBoard

SpecCalib == InitCalib /\ [][NextCalib]_vars

----------------------------------------------------------------------------
(* Claims                                                                  *)

\* C1, as claimed: whenever predict runs its forward pass the network is in
\* inference mode and its batch-statistics layers use (and do not update)
\* their running estimates, and whenever train_on runs its forward pass the
\* network is in training mode, in both torch variants.
C1_ForwardPassMode ==
  /\ lastOp = "predict" => fwdMode = "eval" /\ bnStats # "batch"
  /\ lastOp = "train_on" => fwdMode = "train"

\* C2, as claimed: predict is deterministic: on the same network state and
\* the same input, the call and its copy return identical policy and value
\* outputs, in both torch variants.
C2_PredictDeterministic == lastOp = "predict" => out = outCopy

\* C3: the gradient the optimizer step of a train_on call reads, and leaves
\* in .grad, is the gradient of that call's loss alone, whatever calls came
\* before, and every train_on call takes one optimizer step.
C3_StepReadsOwnGradient ==
  /\ lastOp = "train_on" => consumed = lossGrad /\ net.grad = lossGrad
  /\ steps <= nops

\* a train_on call that found a gradient left by an earlier call
C3_Witness ==
  lastOp = "train_on" /\ steps >= 2 /\ gradBefore # 0 /\ lossGrad # 0

\* C4: the parameter changes only in a train_on call (its optimizer step);
\* a forward or predict call leaves the parameter unchanged, and a predict
\* call leaves the accumulated gradient unchanged too.
C4_ParamsOnlyByOptimizerStep ==
  [][ /\ net'.params # net.params => lastOp' = "train_on" /\ steps' = steps + 1
      /\ (nops' # nops /\ lastOp' \in {"forward", "predict"})
           => net'.params = net.params
      /\ (nops' # nops /\ lastOp' = "predict") => net'.grad = net.grad ]_vars

\* a predict call made after a train_on call moved the parameter and left a
\* gradient behind
C4_Witness ==
  lastOp = "predict" /\ steps >= 1 /\ net.grad # 0 /\ net.params # 1

Legal == {i \in Cells : board.mask[i] = 1}
Illegal == {i \in Cells : board.mask[i] = 0}
HasPolicy == stage \in {"value_head", "done"}

\* C5, as claimed: for every board and every parameter setting each illegal
\* cell receives probability below epsilon.  (Stated on the lower bracket of
\* the log-probability: a probability below epsilon needs it below log eps.)
C5_IllegalBelowEpsilon ==
  HasPolicy => \A i \in Illegal : policy.out[i].lo < 0 - 100 * NegLogEps

\* some legal cell's logit is not more than MaskPenalty - NegLogEps below
\* the logit of any illegal cell
C5_LegalLogitInRange ==
  \E j \in Legal : \A i \in Illegal :
    policy.logits[j] > policy.logits[i] - 100 * (MaskPenalty - NegLogEps)

\* C5, amended: the policy head subtracts 5000 from the logit of every
\* illegal cell and leaves the logits of legal cells unchanged; each illegal
\* cell then receives probability below epsilon provided some legal cell's
\* logit is in range.
C5_IllegalBelowEpsilonInRange ==
  HasPolicy =>
    /\ \A j \in Legal : policy.masked[j] = policy.logits[j]
    /\ \A i \in Illegal :
         policy.masked[i] = policy.logits[i] - 100 * MaskPenalty
    /\ C5_LegalLogitInRange =>
         \A i \in Illegal : policy.out[i].hi < 0 - 100 * NegLogEps

\* a board with an illegal cell whose logit is at least that of a legal cell
C5_Witness ==
  /\ HasPolicy /\ C5_LegalLogitInRange
  /\ \E i \in Illegal, j \in Legal : policy.logits[i] >= policy.logits[j]

\* C6: the channel width entering and leaving every outer ResidualBlock is
\* INNER_CHANNELS, every addition on the path (inner skip, outer skip, conv +
\* gpool projection, policy head) combines tensors of equal channel count,
\* and the chain initial_conv -> 5 residual blocks -> heads raises no shape
\* error: the policy has the input's grid and the value is one scalar.
C6_TrunkWidthPreserved ==
  /\ \A b \in shOuter : b.cin = INNER_CHANNELS /\ b.cout = INNER_CHANNELS
  /\ \A a \in shAdds : a.left = a.right /\ a.left > 0
  /\ shStage \notin {"idle", "initial_conv"} => shape.c = INNER_CHANNELS
  /\ shStage = "done" =>
       /\ shPolicy = [c |-> 1, h |-> shInput.h, w |-> shInput.w]
       /\ shValue = [c |-> 1, h |-> 1, w |-> 1]

\* the whole chain has run, through blocks with and without a gpool branch
C6_Witness ==
  /\ shStage = "done"
  /\ {b.blk : b \in shOuter} = 1..RESIDUAL_BLOCKS
  /\ {a.where : a \in shAdds} =
       {"ConvAndGPool", "InnerResidualBlock", "ResidualBlock", "PolicyHead"}

\* C7, as claimed: in every inner residual block both Norm-Act-Conv units
\* produce an output whose channel count equals the block's input channel
\* count, RESIDUAL_INNER_CHANNELS, also when the first unit has a gpool branch.
C7_BothUnitsKeepWidth ==
  \A r \in shInner :
    /\ r.cin = RESIDUAL_INNER_CHANNELS
    /\ r.unit1 = r.cin
    /\ r.unit2 = r.cin

\* C7, amended: in every inner residual block the second unit's output, and
\* so the block's output input + second unit's output, has the block's input
\* channel count RESIDUAL_INNER_CHANNELS; the first unit's output has that
\* count without a gpool branch and RESIDUAL_INNER_CHANNELS - GPOOL_CHANNELS
\* with one.
C7_SecondUnitKeepsWidth ==
  \A r \in shInner :
    /\ r.cin = RESIDUAL_INNER_CHANNELS
    /\ r.unit2 = r.cin
    /\ r.cout = r.cin
    /\ r.unit1 = IF r.gpool THEN r.cin - GPOOL_CHANNELS ELSE r.cin

\* inner blocks of both kinds have run
C7_Witness ==
  /\ \E r \in shInner : r.gpool /\ r.unit1 = RESIDUAL_INNER_CHANNELS - GPOOL_CHANNELS
  /\ \E r \in shInner : ~r.gpool

\* the largest value of a tensor over the legal cells of a mask
LegalMax(inputs, mask) ==
  CHOOSE m \in {inputs[i] : i \in {j \in DOMAIN inputs : mask[j] = 1}} :
    \A i \in DOMAIN inputs : mask[i] = 1 => inputs[i] <= m

\* C8: in every gpool_forward call the max-pooled value is the maximum over
\* the legal cells only.
C8_MaxOverLegalCells ==
  \A p \in pools : p.pooled[3] = LegalMax(p.inputs, p.mask)

\* a pooling over a board with a padding cell whose legal cells are all
\* negative: the padding cell holds 0, the largest value of the tensor
C8_Witness ==
  \E p \in pools : p.pooled[3] < 0 /\ \E i \in DOMAIN p.mask : p.mask[i] = 0

ZeroAtPadding(t) == \A i \in Cells : board.mask[i] = 0 => t[i] = 0

\* C9, as claimed: every convolution in the network receives an input that
\* is zero at every mask = 0 cell.
C9_EveryConvolutionMasked == \A c \in fed : ZeroAtPadding(c.input)

\* C9, amended: every convolution other than initial_conv receives an input
\* that is zero at every mask = 0 cell; initial_conv reads the caller's board
\* tensor as it is.
C9_ConvolutionsAfterNormMasked ==
  \A c \in fed : c.layer # "initial_conv" => ZeroAtPadding(c.input)

\* the trunk holds a nonzero value at a padding cell after all the
\* convolutions of the residual blocks have been fed
C9_Witness ==
  /\ stage = "trunkfinal"
  /\ \E i \in Cells : board.mask[i] = 0 /\ trunk[i] # 0
  /\ \E c \in fed : c.layer = "conv1g"

\* C10: summed over the fully legal square boards of sides 16..40, the
\* linear factor (n - 28)/10 and the quadratic factor (n - 28)^2/100 - 0.52
\* are zero, so out_pool2 and out_pool3 of a constant activation sum to zero.
C10_FactorsSumToZero ==
  calSide > MaxSize => calLinear = 0 /\ calQuad = 0

\* the sweep has covered every side
C10_Witness == calSide = MaxSize + 1 /\ calMean # 0

====
